---- MODULE Spec2Model ----
(***************************************************************************)
(* A state-machine model of repairsim: simulation.simulate driving one     *)
(* process tree (randomProcess.py / randomFailure.py) per replication on   *)
(* a simpy Environment, and reporting one sample per replication to a      *)
(* collector.Collector; the Collector's own methods; and sweep_range of    *)
(* recovery.py / failure.py calling simulate once per rate.                *)
(*                                                                         *)
(* Spec          simulate called directly, for MaxRuns replications        *)
(* SpecCollector the methods of a Collector called in any order            *)
(* SpecSweep     sweep_range over the rates StartRate..EndRate             *)
(* SpecHorizon   one replication, with the scheduler's steps taken fairly  *)
(*                                                                         *)
(* Time is discretised to naturals; a sampled inter-arrival time is any    *)
(* value in 1..MaxDelay (from failure_a for the uniform kind).             *)
(* Probabilities and uniform samples are counted in units of 1/Scale.  A   *)
(* float quotient a / b is kept as the reduced fraction <<a', b'>>.        *)
(***************************************************************************)
EXTENDS Integers, Sequences, FiniteSets, TLC

\* ------------------------------------------------------------------ bounds
MaxRuns == 2        \* params.maxRuns: replications of one simulate call
MaxTime == 3        \* params.maxTime: the horizon of env.run(until = ...)
MaxDelay == 2       \* largest inter-arrival time a leaf samples
NumProcess == 2     \* params.num_process: children of the parallel composite
Scale == 10         \* probabilities and uniform samples are in units of 1/Scale
MaxSamples == 3     \* longest sample buffer a caller of the Collector fills
EndRate == 2        \* sp.end_rate, in units of sp.increment_rate
MaxCycles == 4      \* cycles of run() followed in one replication (SpecHorizon)

\* the inter-arrival times a leaf can sample: expovariate is positive (it is
\* 0 only for the single stream value 0.0)
Delays == 1..MaxDelay
\* random.uniform(a, b) of UniformProcess.arrivalTime, with b = MaxDelay
UniformDelays(a) == a..MaxDelay
\* uniform samples u in [0,1), in units of 1/Scale
Uvals == {2, 3, 5, 9}
\* params.probabilities, in units of 1/Scale; <<3, 5>> does not sum to 1
ProbLists == {<<3, 7>>, <<5, 5>>, <<3, 5>>}

\* sp.start_rate and sp.increment_rate, in units of sp.increment_rate
StartRate == 1
IncrementRate == 1

\* simpy event priorities
URGENT == 0
NORMAL == 1

VARIABLES
    distribution,    \* params.distribution
    maxRuns,         \* params.maxRuns
    maxTime,         \* params.maxTime
    probabilities,   \* params.probabilities
    failure_a,       \* params.failure_a: lower end of the uniform kind's delays
    paramsSequence,  \* params.sequence (attribute of the shared params object)
    pc,              \* position in simulate
    i,               \* loop variable of simulate: replications completed
    error,           \* the exception simulate ended with, or "none"
    now,             \* env.now
    queue,           \* env._queue: the scheduled events
    eid,             \* env._eid: next event id
    target,          \* the event the root process is suspended on
    cond,            \* the AnyOf condition of the current race round
    prevTime,        \* local prevTime of RandomProcess.run
    proc,            \* the process tree f: node id -> object fields
    tempList,        \* Collector.tempList
    cycles,          \* completed iterations of RandomProcess.run in this replication
    stream,          \* the generator of module random: its seed and position
    stats,           \* Collector.stats: the rows, in insertion order
    call,            \* the latest call of a Collector method: [op, arg, ret]
    sweep            \* sweep_range: [driver, pc, rate], driver "none" without one

vars == <<distribution, maxRuns, maxTime, probabilities, failure_a, paramsSequence, pc, i, error, now, queue,
          eid, target, cond, prevTime, proc, tempList, cycles, stream, stats, call,
          sweep>>

\* ------------------------------------------------------------- registry
\* simulation.failureTypes, restricted to the kinds modelled, plus the
\* branching composite of randomProcess.py
failureTypes ==
    {"exponential", "uniform", "n_exponential", "exponential_fr", "branching"}

Distributions == failureTypes \cup {"unknown"}

\* ------------------------------------------------------------ arithmetic
RECURSIVE GCD(_, _)
GCD(a, b) == IF b = 0 THEN a ELSE GCD(b, a % b)

\* the float quotient a / b (b # 0) as a reduced fraction
Ratio(a, b) == LET g == GCD(a, b) IN <<a \div g, b \div g>>

\* --------------------------------------------------------- construction
\* RandomProcess.__init__ : count = 0, waitTime = 0.  The fields of the
\* subclasses are kept in the same record: children (processes, sequence or
\* branches), currentIndex, currentProcess (0: not a process), cdf, and n, the
\* uniform sample of the latest BranchingProcess.trigger (-1: none yet)
RandomProcessInit(cls) ==
    [cls |-> cls, count |-> 0, waitTime |-> 0, children |-> <<>>,
     currentIndex |-> 0, currentProcess |-> 0, cdf |-> <<>>, n |-> -1]

\* ExponentialFailure / ExponentialRecovery : a leaf
LeafInit == RandomProcessInit("leaf")

\* SequentialProcess.__init__ : sequence = params.sequence, currentIndex = 0,
\* currentProcess = sequence[0]
SequentialInit(sequence) ==
    [RandomProcessInit("seq") EXCEPT !.children = sequence,
                                     !.currentIndex = 0,
                                     !.currentProcess = sequence[1]]

\* ParallelProcess.__init__ + ParallelExponentialFailure.__init__
ParallelInit(processes) ==
    [RandomProcessInit("par") EXCEPT !.children = processes]

RECURSIVE CdfOf(_, _, _)
\* the loop of BranchingProcess.__init__: cdf[k] = probs[1] + ... + probs[k]
CdfOf(probs, k, sum) ==
    IF k > Len(probs) THEN <<>>
    ELSE <<sum + probs[k]>> \o CdfOf(probs, k + 1, sum + probs[k])

\* BranchingProcess.__init__ : no check that the probabilities sum to 1
BranchingInit(branches, probs) ==
    [RandomProcessInit("branch") EXCEPT !.children = branches,
                                        !.cdf = CdfOf(probs, 1, 0)]

\* the branching composite over a two-stage sequence and a single stage, with
\* params.probabilities (failure.failureTypes["branching"])
TwoBranchTree ==
    <<BranchingInit(<<2, 3>>, probabilities),
      SequentialInit(<<4, 5>>), LeafInit, LeafInit, LeafInit>>

\* the tree failureType(env, params) builds, as node id -> fields; node 1 is f
TreeOf(kind) ==
    CASE kind \in {"exponential", "uniform"} -> <<LeafInit>>
      [] kind = "n_exponential" ->
            <<ParallelInit([k \in 1..NumProcess |-> k + 1])>>
            \o [k \in 1..NumProcess |-> LeafInit]
      [] kind = "exponential_fr" ->
            <<SequentialInit(<<2, 3>>), LeafInit, LeafInit>>
      [] kind = "branching" -> TwoBranchTree

\* what the constructor leaves in params.sequence
SequenceOf(kind) ==
    CASE kind = "exponential_fr" -> <<2, 3>>
      [] kind = "branching" -> <<4, 5>>
      [] OTHER -> paramsSequence

\* a variant in which the stages are built once and kept in params.sequence
ConstructedTree_Reuse ==
    IF paramsSequence = <<>> THEN TreeOf(distribution)
    ELSE [n \in DOMAIN proc |-> IF n = 1 THEN TreeOf(distribution)[1] ELSE proc[n]]

\* f = failureType(env, params) in simulate
ConstructedTree == TreeOf(distribution)

\* ------------------------------------------------------------ scheduler
NoTarget == [kind |-> "none", eid |-> 0]
NoCond == [events |-> <<>>, triggered |-> FALSE, first |-> 0]

\* a variant that pops the latest of the events that are otherwise equal
Before_LatestFirst(a, b) ==
    \/ a.time < b.time
    \/ a.time = b.time /\ a.prio < b.prio
    \/ a.time = b.time /\ a.prio = b.prio /\ a.eid > b.eid

\* the order of env._queue: (time, priority, event id)
Before(a, b) ==
    \/ a.time < b.time
    \/ a.time = b.time /\ a.prio < b.prio
    \/ a.time = b.time /\ a.prio = b.prio /\ a.eid < b.eid

\* the event env.step pops: least (time, priority, eid)
HeadOf(q) == CHOOSE e \in q : \A o \in q : o = e \/ Before(e, o)

Event(t, prio, id, kind, node, delay) ==
    [time |-> t, prio |-> prio, eid |-> id, kind |-> kind, node |-> node,
     delay |-> delay]

\* ------------------------------------------------------- random stream
\* random.seed(seed), the body of RandomProcess.setSeed: the generator
\* restarts at the first sample of the seed's sequence
SetSeed(seed) == [seed |-> seed, pos |-> 0]

\* a variant that seeds the generator again before it samples
Draw_Reseeding(st, k) == [SetSeed(st.seed) EXCEPT !.pos = k]

\* k samples taken (random.expovariate, random.random): the position of the
\* generator moves k places on
Draw(st, k) == [st EXCEPT !.pos = @ + k]

\* ------------------------------------------------------------- trigger
\* st = [proc, queue, eid, cond, now, rand, u, drawn, err, ev]: the objects
\* trigger reads and writes; rand is the sequence of delays the random stream
\* yields next, u the next uniform sample, drawn the number of samples taken
\* so far; ev is the event returned

RECURSIVE SelectBranch(_, _, _, _)
\* a variant whose upper bound is inclusive
SelectBranch_Inclusive(n, cdf, branches, k) ==
    IF k > Len(branches) THEN 0
    ELSE IF n <= cdf[k] THEN branches[k]
    ELSE SelectBranch(n, cdf, branches, k + 1)

\* the branch loop of BranchingProcess.trigger: first i with n < cdf[i], else 0
SelectBranch(n, cdf, branches, k) ==
    IF k > Len(branches) THEN 0
    ELSE IF n < cdf[k] THEN branches[k]
    ELSE SelectBranch(n, cdf, branches, k + 1)

\* a variant that stops at the last stage instead of wrapping around
NextIndex_Saturate(p) ==
    IF p.currentIndex + 1 < Len(p.children) THEN p.currentIndex + 1
    ELSE p.currentIndex

\* SequentialProcess.trigger: (currentIndex + 1) % len(sequence)
NextIndex(p) == (p.currentIndex + 1) % Len(p.children)

RECURSIVE Trigger(_, _), TriggerOn(_, _), TriggerAll(_, _, _)
\* self.trigger() of node n, the state st evaluated once
Trigger(n, st) == CHOOSE r \in {TriggerOn(n, x) : x \in {st}} : TRUE

TriggerOn(n, st) ==
    LET p == st.proc[n] IN
    CASE p.cls = "leaf" ->
            \* RandomProcess.trigger: env.timeout(self.arrivalTime())
            LET d == Head(st.rand)
                e == Event(st.now + d, NORMAL, st.eid, "timeout", n, d)
            IN [st EXCEPT !.queue = @ \cup {e}, !.eid = @ + 1,
                          !.rand = Tail(@), !.drawn = @ + 1,
                          !.ev = [kind |-> "timeout", eid |-> e.eid, node |-> n,
                                  delay |-> d]]
      [] p.cls = "seq" ->
            \* SequentialProcess.trigger
            LET cur == p.children[p.currentIndex + 1]
                nxt == NextIndex(p)
            IN Trigger(cur, [st EXCEPT !.proc[n].currentProcess = cur,
                                       !.proc[n].currentIndex = nxt])
      [] p.cls = "par" ->
            \* ParallelProcess.trigger: AnyOf(env, events)
            \* (a condition over no events succeeds at once)
            LET s1 == TriggerAll(p.children, 1, [st EXCEPT !.cond = NoCond])
                s2 == IF Len(p.children) > 0 THEN s1
                      ELSE [s1 EXCEPT !.cond.triggered = TRUE,
                                      !.queue = @ \cup {Event(st.now, NORMAL, s1.eid,
                                                              "cond", 0, 0)},
                                      !.eid = @ + 1]
            IN [s2 EXCEPT !.ev = [kind |-> "cond", eid |-> 0, node |-> n,
                                  delay |-> 0]]
      [] p.cls = "branch" ->
            \* BranchingProcess.trigger
            LET cur == SelectBranch(st.u, p.cdf, p.children, 1)
                s1 == [st EXCEPT !.proc[n].currentProcess = cur,
                                 !.proc[n].n = st.u, !.drawn = @ + 1]
            IN IF cur = 0 THEN [s1 EXCEPT !.err = "AttributeError"]
               ELSE Trigger(cur, s1)

\* the for loop of ParallelProcess.trigger; the events are kept in cond.events
TriggerAll(children, k, st) ==
    IF k > Len(children) THEN st
    ELSE TriggerAll(children, k + 1,
                    CHOOSE r \in {[s1 EXCEPT !.cond.events = Append(@, s1.ev)] :
                                     s1 \in {Trigger(children[k], st)}} : TRUE)

\* the values arrivalTime can return in a tree of this kind
DelaysOf(kind) == IF kind = "uniform" THEN UniformDelays(failure_a) ELSE Delays

\* number of inter-arrival samples one trigger of the tree draws
DrawsOf(kind) == IF kind = "n_exponential" THEN NumProcess ELSE 1

\* ------------------------------------------------------- updateStatistics
RECURSIVE UpdateStatistics(_, _, _, _)
\* a variant that attributes to the child the index points at
UpdateStatistics_ByIndex(n, pr, waitTime, count) ==
    LET p == pr[n] IN
    IF p.cls = "seq"
    THEN UpdateStatistics(p.children[p.currentIndex + 1], pr, waitTime, count)
    ELSE IF p.cls = "branch"
    THEN UpdateStatistics(p.currentProcess, pr, waitTime, count)
    ELSE [pr EXCEPT ![n].waitTime = @ + waitTime, ![n].count = @ + count]

\* RandomProcess.updateStatistics, overridden by SequentialProcess and
\* BranchingProcess (delegate to currentProcess); ParallelProcess inherits
UpdateStatistics(n, pr, waitTime, count) ==
    LET p == pr[n] IN
    IF p.cls \in {"seq", "branch"}
    THEN UpdateStatistics(p.currentProcess, pr, waitTime, count)
    ELSE [pr EXCEPT ![n].waitTime = @ + waitTime, ![n].count = @ + count]

\* ---------------------------------------------------------------- collect
Raise == <<"raise">>

\* RandomProcess.collect: waitTime / count
BaseCollect(p) ==
    IF p.count = 0 THEN Raise ELSE Ratio(p.waitTime, p.count)

\* TwoStageFailureRecovery.collect: upTime / (upTime + downTime)
TwoStageCollect(pr) ==
    LET upTime == pr[pr[1].children[1]].waitTime
        downTime == pr[pr[1].children[2]].waitTime
    IN IF upTime + downTime = 0 THEN Raise
       ELSE Ratio(upTime, upTime + downTime)

\* f.collect(coll): the value handed to coll.collect, or Raise
CollectValue ==
    IF distribution = "exponential_fr" THEN TwoStageCollect(proc)
    ELSE BaseCollect(proc[1])

\* -------------------------------------------------------------- Collector
\* statsim.simpleStats in its order: statistics.median, statistics.mean
\* (interval95 needs the normal quantiles of scipy and is left out)
StatTable == <<"median", "average">>

None == <<"None">>
\* a method call by the owner of the Collector, with what it returned
Call(op, arg, ret) == [op |-> op, arg |-> arg, ret |-> ret]
\* the attribute tempList before the first startRow: not there
Unset == <<"unset">>

\* exact arithmetic on the fractions that stand for floats
FracLess(a, b) == a[1] * b[2] < b[1] * a[2]
FracAdd(a, b) == Ratio(a[1] * b[2] + b[1] * a[2], a[2] * b[2])
FracDiv(a, n) == Ratio(a[1], a[2] * n)

RECURSIVE FracSum(_)
FracSum(data) ==
    IF data = <<>> THEN <<0, 1>> ELSE FracAdd(Head(data), FracSum(Tail(data)))

RECURSIVE Insert(_, _), Sorted(_)
Insert(x, s) ==
    IF s = <<>> THEN <<x>>
    ELSE IF FracLess(x, Head(s)) THEN <<x>> \o s
    ELSE <<Head(s)>> \o Insert(x, Tail(s))
\* sorted(data)
Sorted(data) == IF data = <<>> THEN <<>> ELSE Insert(Head(data), Sorted(Tail(data)))

\* statistics.mean: StatisticsError for no data
Mean(data) ==
    IF data = <<>> THEN Raise ELSE FracDiv(FracSum(data), Len(data))

\* statistics.median: the middle value, or the mean of the two middle
\* values; StatisticsError for no data
Median(data) ==
    LET s == Sorted(data)
        n == Len(data)
    IN IF n = 0 THEN Raise
       ELSE IF n % 2 = 1 THEN s[(n + 1) \div 2]
       ELSE FracDiv(FracAdd(s[n \div 2], s[(n \div 2) + 1]), 2)

\* func(self.tempList) for the function the table holds under statName
StatFunc(statName, data) ==
    CASE statName = "median" -> Median(data)
      [] statName = "average" -> Mean(data)

\* a dict is a sequence of [key, val] records in insertion order
Has(d, key) == \E k \in 1..Len(d) : d[k].key = key
Get(d, key) == d[CHOOSE k \in 1..Len(d) : d[k].key = key].val
\* a variant in which a key assigned again moves to the end
Put_MoveToEnd(d, key, val) ==
    Append(SelectSeq(d, LAMBDA r : r.key # key), [key |-> key, val |-> val])

\* d[key] = val: a key already there keeps its place
Put(d, key, val) ==
    IF Has(d, key)
    THEN [k \in 1..Len(d) |-> IF d[k].key = key THEN [d[k] EXCEPT !.val = val]
                                ELSE d[k]]
    ELSE Append(d, [key |-> key, val |-> val])

\* a variant that starts the table of rows afresh
startRow_Reset(st, name) == <<[key |-> name, val |-> <<>>]>>

\* Collector.startRow: self.stats[name] = { }
startRow(st, name) == Put(st, name, <<>>)

RECURSIVE doneRowLoop(_, _, _, _)
\* the loop of Collector.doneRow from the k-th entry of the table on; an
\* exception ends it with the statistics stored so far
doneRowLoop(st, name, data, k) ==
    IF k > Len(StatTable) THEN [stats |-> st, error |-> "none"]
    ELSE IF data = Unset THEN [stats |-> st, error |-> "AttributeError"]
    ELSE LET statValue == StatFunc(StatTable[k], data) IN
         IF statValue = Raise THEN [stats |-> st, error |-> "StatisticsError"]
         ELSE IF ~Has(st, name) THEN [stats |-> st, error |-> "KeyError"]
         ELSE doneRowLoop(Put(st, name, Put(Get(st, name), StatTable[k], statValue)),
                          name, data, k + 1)

\* Collector.doneRow
doneRow(st, name, data) == doneRowLoop(st, name, data, 1)

RECURSIVE extractRow(_, _), extract(_, _)
\* a variant that reports None for a row that lacks the statistic
extractRow_Default(stat, stat_name) ==
    IF Has(stat, stat_name) THEN <<Get(stat, stat_name)>> ELSE <<None>>

\* the inner loop of Collector.extract over one row
extractRow(stat, stat_name) ==
    IF stat = <<>> THEN <<>>
    ELSE (IF Head(stat).key = stat_name THEN <<Head(stat).val>> ELSE <<>>)
         \o extractRow(Tail(stat), stat_name)
\* Collector.extract
extract(st, stat_name) ==
    IF st = <<>> THEN <<>>
    ELSE extractRow(Head(st).val, stat_name) \o extract(Tail(st), stat_name)

\* ------------------------------------------------------------------ Init
\* simulate is called directly, not from a sweep
NoSweep == [driver |-> "none", pc |-> "none", rate |-> 0]

\* the state at the call of simulate, before its first statement
InitCommon ==
    /\ paramsSequence = <<>>
    /\ pc = "start"
    /\ i = 0
    /\ error = "none"
    /\ now = 0
    /\ queue = {}
    /\ eid = 0
    /\ target = NoTarget
    /\ cond = NoCond
    /\ prevTime = 0
    /\ proc = <<>>
    /\ tempList = <<>>
    /\ cycles = 0
    /\ stream = SetSeed(0)
    /\ stats = startRow(<<>>, 1)
    /\ call = Call("startRow", 1, None)
    /\ sweep = NoSweep

\* simulate called for any kind of process (or an unknown kind) with positive
\* delays, with any horizon up to MaxTime, and a collector on which
\* startRow(1) has been called
Init ==
    /\ distribution \in Distributions
    /\ probabilities \in (IF distribution = "branching" THEN ProbLists ELSE {<<>>})
    /\ failure_a = 1
    /\ maxRuns = MaxRuns
    /\ maxTime \in 1..MaxTime
    /\ InitCommon

envVars == <<now, queue, eid, target, cond, prevTime, cycles>>
paramVars == <<distribution, maxRuns, maxTime, probabilities, failure_a>>
\* the state of the caller of simulate that simulate does not touch
callerVars == <<stats, call, sweep>>

\* ------------------------------------------------------------- simulate
\* a variant that reports a sample of 0 for a kind it does not know
Lookup_ZeroSample ==
    /\ pc = "start"
    /\ IF distribution \in failureTypes
       THEN pc' = "loop" /\ error' = error /\ tempList' = tempList
       ELSE /\ pc' = "error" /\ error' = "NameError"
            /\ tempList' = Append(tempList, <<0, 1>>)
    /\ UNCHANGED <<stream, paramVars, callerVars, paramsSequence, i, envVars, proc>>

\* failureType = failureTypes[distribution], NameError when unknown
Lookup ==
    /\ pc = "start"
    /\ IF distribution \in failureTypes
       THEN pc' = "loop" /\ error' = error
       ELSE pc' = "error" /\ error' = "NameError"
    /\ UNCHANGED <<stream, paramVars, callerVars, paramsSequence, i, envVars, proc, tempList>>

\* one pass of the for loop up to f = failureType(env, params)
Construct ==
    /\ pc = "loop"
    /\ i < maxRuns
    /\ now' = 0
    /\ queue' = {}
    /\ eid' = 0
    /\ target' = NoTarget
    /\ cond' = NoCond
    /\ prevTime' = 0
    /\ cycles' = 0
    /\ proc' = ConstructedTree
    /\ paramsSequence' = SequenceOf(distribution)
    /\ pc' = "constructed"
    /\ UNCHANGED <<stream, paramVars, callerVars, i, error, tempList>>

\* the for loop is exhausted: simulate returns
LoopExit ==
    /\ pc = "loop"
    /\ i = maxRuns
    /\ pc' = "done"
    /\ UNCHANGED <<stream, paramVars, callerVars, paramsSequence, i, error, envVars, proc, tempList>>

\* f.setAction(): env.process(self.run()) schedules the Initialize event
SetAction ==
    /\ pc = "constructed"
    /\ queue' = queue \cup {Event(now, URGENT, eid, "init", 0, 0)}
    /\ eid' = eid + 1
    /\ pc' = "ready"
    /\ UNCHANGED <<stream, paramVars, callerVars, paramsSequence, i, error, now, target, cond,
                   prevTime, cycles, proc, tempList>>

\* a variant of env.run that schedules no stop event
EnvRun_NoStop ==
    /\ pc = "ready"
    /\ pc' = "running"
    /\ UNCHANGED <<stream, paramVars, callerVars, paramsSequence, i, error,
                   envVars, proc, tempList>>

\* env.run(until = maxTime): schedules the stop event, urgent, at the horizon
EnvRun ==
    /\ pc = "ready"
    /\ IF maxTime <= now
       THEN pc' = "error" /\ error' = "ValueError" /\ UNCHANGED <<queue, eid>>
       ELSE /\ queue' = queue \cup {Event(maxTime, URGENT, eid, "until", 0, 0)}
            /\ eid' = eid + 1
            /\ pc' = "running"
            /\ error' = error
    /\ UNCHANGED <<stream, paramVars, callerVars, paramsSequence, i, now, target, cond, prevTime,
                   cycles, proc, tempList>>

\* the state trigger works on, with the next samples of the random stream
TrigState(pr, q, t, rand, u) ==
    [proc |-> pr, queue |-> q, eid |-> eid, cond |-> cond, now |-> t,
     rand |-> rand, u |-> u, drawn |-> 0, err |-> "none",
     ev |-> [kind |-> "none", eid |-> 0, node |-> 0, delay |-> 0]]

\* triggerEvent = self.trigger(); yield(triggerEvent) in RandomProcess.run
TriggerAndYield(pr, q, t) ==
    \E rand \in [1..DrawsOf(distribution) -> DelaysOf(distribution)],
       u \in (IF distribution = "branching" THEN Uvals ELSE {0}) :
        \E s \in {Trigger(1, TrigState(pr, q, t, rand, u))} :
        /\ proc' = s.proc
        /\ queue' = s.queue
        /\ eid' = s.eid
        /\ cond' = s.cond
        /\ stream' = Draw(stream, s.drawn)
        /\ IF s.err = "none"
           THEN /\ target' = [kind |-> s.ev.kind, eid |-> s.ev.eid]
                /\ pc' = pc
                /\ error' = error
           ELSE /\ target' = NoTarget
                /\ pc' = "error"
                /\ error' = s.err

\* env.step on the Initialize event: run() starts, up to its first yield
StepInitialize ==
    /\ pc = "running"
    /\ queue # {}
    /\ LET e == HeadOf(queue) IN
        /\ e.kind = "init"
        /\ now' = e.time
        /\ prevTime' = e.time
        /\ TriggerAndYield(proc, queue \ {e}, e.time)
    /\ UNCHANGED <<paramVars, callerVars, paramsSequence, i, cycles, tempList>>

\* a variant in which any timeout or condition event resumes the root
IsTarget_AnyEvent(e) == e.kind \in {"timeout", "cond"} /\ target.kind # "none"

\* e is the event the root process has yielded
IsTarget(e) ==
    \/ e.kind = "timeout" /\ target.kind = "timeout" /\ target.eid = e.eid
    \/ e.kind = "cond" /\ target.kind = "cond"

\* a variant in which the root's own counters are advanced, as by
\* RandomProcess.updateStatistics without the composites' overrides
StepResume_BaseUpdate ==
    /\ pc = "running"
    /\ queue # {}
    /\ LET e == HeadOf(queue) IN
        /\ IsTarget(e)
        /\ now' = e.time
        /\ prevTime' = e.time
        /\ cycles' = cycles + 1
        /\ TriggerAndYield([proc EXCEPT ![1].waitTime = @ + (e.time - prevTime),
                                        ![1].count = @ + 1],
                           queue \ {e}, e.time)
    /\ UNCHANGED <<paramVars, callerVars, paramsSequence, i, tempList>>

\* env.step on the event run() is suspended on: the loop body after the yield,
\* then the next trigger and yield
StepResume ==
    /\ pc = "running"
    /\ queue # {}
    /\ LET e == HeadOf(queue) IN
        /\ IsTarget(e)
        /\ now' = e.time
        /\ prevTime' = e.time
        /\ cycles' = cycles + 1
        /\ TriggerAndYield(UpdateStatistics(1, proc, e.time - prevTime, 1),
                           queue \ {e}, e.time)
    /\ UNCHANGED <<paramVars, callerVars, paramsSequence, i, tempList>>

\* a variant in which a timeout of an earlier round also resolves the race
InCond_AnyRound(e) == e.kind = "timeout"

\* e is one of the events of the AnyOf of the current round
InCond(e) == \E k \in 1..Len(cond.events) : cond.events[k].eid = e.eid

\* env.step on a timeout of the pending AnyOf: Condition._check succeeds and
\* schedules the condition itself at the current time
StepCheck ==
    /\ pc = "running"
    /\ queue # {}
    /\ LET e == HeadOf(queue) IN
        /\ e.kind = "timeout"
        /\ ~IsTarget(e)
        /\ InCond(e) /\ ~cond.triggered
        /\ now' = e.time
        /\ cond' = [cond EXCEPT !.triggered = TRUE, !.first = e.node]
        /\ queue' = (queue \ {e}) \cup {Event(e.time, NORMAL, eid, "cond", 0, 0)}
        /\ eid' = eid + 1
    /\ UNCHANGED <<stream, paramVars, callerVars, paramsSequence, pc, i, error, target, prevTime,
                   cycles, proc, tempList>>

\* env.step on a timeout whose condition has already been triggered: its
\* callbacks do nothing
StepStale ==
    /\ pc = "running"
    /\ queue # {}
    /\ LET e == HeadOf(queue) IN
        /\ e.kind = "timeout"
        /\ ~IsTarget(e)
        /\ ~(InCond(e) /\ ~cond.triggered)
        /\ now' = e.time
        /\ queue' = queue \ {e}
    /\ UNCHANGED <<stream, paramVars, callerVars, paramsSequence, pc, i, error, eid, target, cond,
                   prevTime, cycles, proc, tempList>>

\* a variant in which the stop at the horizon credits the root with the
\* interval since its last firing
StepUntil_AttributeTail ==
    /\ pc = "running"
    /\ queue # {}
    /\ LET e == HeadOf(queue) IN
        /\ e.kind = "until"
        /\ now' = e.time
        /\ queue' = queue \ {e}
        /\ proc' = UpdateStatistics(1, proc, e.time - prevTime, 0)
    /\ pc' = "stopped"
    /\ UNCHANGED <<stream, paramVars, callerVars, paramsSequence, i, error, eid, target, cond,
                   prevTime, cycles, tempList>>

\* env.step on the stop event: StopSimulation, env.run returns
StepUntil ==
    /\ pc = "running"
    /\ queue # {}
    /\ LET e == HeadOf(queue) IN
        /\ e.kind = "until"
        /\ now' = e.time
        /\ queue' = queue \ {e}
    /\ pc' = "stopped"
    /\ UNCHANGED <<stream, paramVars, callerVars, paramsSequence, i, error, eid, target, cond,
                   prevTime, cycles, proc, tempList>>

\* f.collect(coll) and the end of the loop body
Collect ==
    /\ pc = "stopped"
    /\ IF CollectValue = Raise
       THEN /\ pc' = "error"
            /\ error' = "ZeroDivisionError"
            /\ UNCHANGED <<tempList, i>>
       ELSE /\ tempList' = Append(tempList, CollectValue)
            /\ i' = i + 1
            /\ pc' = "loop"
            /\ error' = error
    /\ UNCHANGED <<stream, paramVars, callerVars, paramsSequence, envVars, proc>>

Next ==
    \/ Lookup
    \/ Construct
    \/ LoopExit
    \/ SetAction
    \/ EnvRun
    \/ StepInitialize
    \/ StepResume
    \/ StepCheck
    \/ StepStale
    \/ StepUntil
    \/ Collect

Spec == Init /\ [][Next]_vars

\* ---------------------------------------------------- the Collector alone
\* the row keys, samples and statistic names a caller passes
Keys == {1, 2}
Samples == {<<1, 1>>, <<2, 1>>, <<3, 1>>}
StatNames == {"median", "average", "stddev"}

\* a new Collector(statTable), its methods called in any order; simulate is
\* not running
InitCollector ==
    /\ distribution = "exponential_fr"
    /\ probabilities = <<>>
    /\ failure_a = 1
    /\ maxRuns = MaxRuns
    /\ maxTime = MaxTime
    /\ paramsSequence = <<>>
    /\ pc = "idle"
    /\ i = 0
    /\ error = "none"
    /\ now = 0
    /\ queue = {}
    /\ eid = 0
    /\ target = NoTarget
    /\ cond = NoCond
    /\ prevTime = 0
    /\ proc = <<>>
    /\ cycles = 0
    /\ stream = SetSeed(0)
    /\ tempList = Unset
    /\ stats = <<>>
    /\ call = Call("none", None, None)
    /\ sweep = NoSweep

simVars == <<paramVars, paramsSequence, pc, i, envVars, proc, stream, sweep>>

\* a variant of startRow that keeps the buffer of the row before
CallStartRow_KeepBuffer ==
    /\ pc = "idle"
    /\ \E name \in Keys :
        /\ stats' = startRow(stats, name)
        /\ tempList' = (IF tempList = Unset THEN <<>> ELSE tempList)
        /\ call' = Call("startRow", name, None)
    /\ error' = "none"
    /\ UNCHANGED simVars

\* coll.startRow(name)
CallStartRow ==
    /\ pc = "idle"
    /\ \E name \in Keys :
        /\ stats' = startRow(stats, name)
        /\ tempList' = <<>>
        /\ call' = Call("startRow", name, None)
    /\ error' = "none"
    /\ UNCHANGED simVars

\* coll.collect(x): AttributeError when no row has ever been opened
CallCollect ==
    /\ pc = "idle"
    /\ \E x \in Samples :
        /\ IF tempList = Unset
           THEN error' = "AttributeError" /\ tempList' = tempList
           ELSE /\ Len(tempList) < MaxSamples
                /\ tempList' = Append(tempList, x)
                /\ error' = "none"
        /\ call' = Call("collect", x, None)
    /\ UNCHANGED <<simVars, stats>>

\* coll.doneRow(name)
CallDoneRow ==
    /\ pc = "idle"
    /\ \E name \in Keys :
        LET r == doneRow(stats, name, tempList) IN
        /\ stats' = r.stats
        /\ error' = r.error
        /\ call' = Call("doneRow", name, None)
    /\ UNCHANGED <<simVars, tempList>>

\* coll.extract(stat_name)
CallExtract ==
    /\ pc = "idle"
    /\ \E stat_name \in StatNames :
        call' = Call("extract", stat_name, extract(stats, stat_name))
    /\ error' = "none"
    /\ UNCHANGED <<simVars, stats, tempList>>

NextCollector == CallStartRow \/ CallCollect \/ CallDoneRow \/ CallExtract

SpecCollector == InitCollector /\ [][NextCollector]_vars

\* ------------------------------------------- one replication to the horizon
\* simulate called for one replication of any kind; the delays of the
\* uniform kind start at 0 or at 1
InitHorizon ==
    /\ distribution \in failureTypes
    /\ probabilities \in (IF distribution = "branching" THEN ProbLists ELSE {<<>>})
    /\ failure_a \in (IF distribution = "uniform" THEN {0, 1} ELSE {1})
    /\ maxRuns = 1
    /\ maxTime \in 1..MaxTime
    /\ InitCommon

\* StepResume, a replication being followed for MaxCycles cycles
StepResumeCapped == cycles < MaxCycles /\ StepResume

NextHorizon ==
    \/ Lookup
    \/ Construct
    \/ LoopExit
    \/ SetAction
    \/ EnvRun
    \/ StepInitialize
    \/ StepResumeCapped
    \/ StepCheck
    \/ StepStale
    \/ StepUntil
    \/ Collect

\* env.run keeps calling env.step, and simulate goes on from one statement
\* to the next: a step that can be taken is taken
SpecHorizon == InitHorizon /\ [][NextHorizon]_vars /\ WF_vars(NextHorizon)

\* ------------------------------------------------------------ sweep_range
\* the kinds swept (the race composite is left to Spec)
SweepKinds == {"exponential", "exponential_fr", "branching", "unknown"}

\* sweep_range(sp, stats) of recovery.py or of failure.py is called with a
\* new Collector
InitSweep ==
    /\ distribution \in SweepKinds
    /\ probabilities \in (IF distribution = "branching" THEN ProbLists ELSE {<<>>})
    /\ failure_a = 1
    /\ maxRuns \in 0..MaxRuns
    /\ maxTime \in 1..MaxTime
    /\ paramsSequence = <<>>
    /\ pc = "idle"
    /\ i = 0
    /\ error = "none"
    /\ now = 0
    /\ queue = {}
    /\ eid = 0
    /\ target = NoTarget
    /\ cond = NoCond
    /\ prevTime = 0
    /\ proc = <<>>
    /\ cycles = 0
    /\ stream = SetSeed(0)
    /\ tempList = Unset
    /\ stats = <<>>
    /\ call = Call("none", None, None)
    /\ sweep \in {[driver |-> d, pc |-> "start", rate |-> 0] :
                      d \in {"recovery", "failure"}}

simLocals == <<pc, i, envVars, proc>>

\* rate = sp.start_rate; in failure.py also getFailureType(sp.distribution),
\* NameError when the kind is unknown
SweepStart ==
    /\ sweep.pc = "start"
    /\ IF sweep.driver = "failure" /\ distribution \notin failureTypes
       THEN /\ sweep' = [sweep EXCEPT !.pc = "error", !.rate = StartRate]
            /\ error' = "NameError"
       ELSE /\ sweep' = [sweep EXCEPT !.pc = "loop", !.rate = StartRate]
            /\ error' = error
    /\ UNCHANGED <<paramVars, paramsSequence, simLocals, stream, tempList,
                   stats, call>>

\* the loop test succeeds: stats.startRow(rate); sp.recovery_rate = rate
SweepStartRow ==
    /\ sweep.pc = "loop"
    /\ sweep.rate <= EndRate
    /\ stats' = startRow(stats, sweep.rate)
    /\ tempList' = <<>>
    /\ call' = Call("startRow", sweep.rate, None)
    /\ sweep' = [sweep EXCEPT !.pc = "row"]
    /\ UNCHANGED <<paramVars, paramsSequence, simLocals, stream, error>>

\* the loop test fails: sweep_range returns
SweepExit ==
    /\ sweep.pc = "loop"
    /\ sweep.rate > EndRate
    /\ sweep' = [sweep EXCEPT !.pc = "done"]
    /\ UNCHANGED <<paramVars, paramsSequence, simLocals, stream, error,
                   tempList, stats, call>>

\* the call in the try block.  recovery.py: simulation.simulate(sp, stats)
\* starts a new frame of simulate.  failure.py: simulation.simulate(sp,
\* failureType, stats) has one argument too many, the TypeError is caught
\* and NameError raised
SweepSimulate ==
    /\ sweep.pc = "row"
    /\ IF sweep.driver = "failure"
       THEN /\ sweep' = [sweep EXCEPT !.pc = "error"]
            /\ error' = "NameError"
            /\ UNCHANGED simLocals
       ELSE /\ sweep' = [sweep EXCEPT !.pc = "simulate"]
            /\ error' = "none"
            /\ pc' = "start"
            /\ i' = 0
            /\ now' = 0
            /\ queue' = {}
            /\ eid' = 0
            /\ target' = NoTarget
            /\ cond' = NoCond
            /\ prevTime' = 0
            /\ cycles' = 0
            /\ proc' = <<>>
    /\ UNCHANGED <<paramVars, paramsSequence, stream, tempList, stats, call>>

\* simulate raised: except: raise NameError("Undefined parameter name")
SweepRaise ==
    /\ sweep.pc = "simulate"
    /\ pc = "error"
    /\ sweep' = [sweep EXCEPT !.pc = "error"]
    /\ error' = "NameError"
    /\ UNCHANGED <<paramVars, paramsSequence, simLocals, stream, tempList,
                   stats, call>>

\* simulate returned: stats.doneRow(rate); rate += sp.increment_rate.  An
\* exception of doneRow is outside the try block and ends the sweep
SweepDoneRow ==
    /\ sweep.pc = "simulate"
    /\ pc = "done"
    /\ LET r == doneRow(stats, sweep.rate, tempList) IN
        /\ stats' = r.stats
        /\ error' = r.error
        /\ sweep' = IF r.error = "none"
                     THEN [sweep EXCEPT !.pc = "loop", !.rate = @ + IncrementRate]
                     ELSE [sweep EXCEPT !.pc = "error"]
    /\ call' = Call("doneRow", sweep.rate, None)
    /\ pc' = "idle"
    /\ UNCHANGED <<paramVars, paramsSequence, i, envVars, proc, stream, tempList>>

NextSweep ==
    \/ SweepStart
    \/ SweepStartRow
    \/ SweepExit
    \/ SweepSimulate
    \/ SweepRaise
    \/ SweepDoneRow
    \/ Lookup
    \/ Construct
    \/ LoopExit
    \/ SetAction
    \/ EnvRun
    \/ StepInitialize
    \/ StepResume
    \/ StepUntil
    \/ Collect

SpecSweep == InitSweep /\ [][NextSweep]_vars

\* ================================================================ claims
Constructed == proc # <<>>

\* trigger calls made on the root so far in this replication
Triggers == IF target.kind = "none" THEN 0 ELSE cycles + 1

RECURSIVE SumSeq(_)
SumSeq(s) == IF s = <<>> THEN 0 ELSE Head(s) + SumSeq(Tail(s))

\* the total of the count fields of the nodes listed
SumCount(nodes) == SumSeq([k \in 1..Len(nodes) |-> proc[nodes[k]].count])

\* a step in which run() completed one cycle (the statements after the yield)
Fired == pc = "running" /\ cycles' = cycles + 1

\* node n's counters are the same before and after the step
SameCounters(n) ==
    /\ proc'[n].count = proc[n].count
    /\ proc'[n].waitTime = proc[n].waitTime

\* ---------------------------------------------------------------- C1
\* C1: for the SequentialProcess at the root (k children), the index starts
\* at 0, stays in 0..k-1 and equals the number of triggers modulo k; the child
\* selected by trigger number t (0-indexed) is children[t mod k]; and the
\* children's counts add up to the number of completed cycles.
C1_SequentialRoundRobin ==
    (distribution = "exponential_fr" /\ Constructed) =>
        LET p == proc[1]
            k == Len(p.children)
        IN /\ p.currentIndex \in 0..(k - 1)
           /\ p.currentIndex = Triggers % k
           /\ Triggers > 0 => p.currentProcess = p.children[((Triggers - 1) % k) + 1]
           /\ SumCount(p.children) = cycles

\* the third trigger has wrapped around to the first stage
C1_Witness ==
    /\ distribution = "exponential_fr"
    /\ cycles = 2
    /\ Triggers = 3
    /\ proc[1].currentProcess = proc[1].children[1]
    /\ proc[1].currentIndex = 1

\* ---------------------------------------------------------------- C2
\* C2: when a cycle completes, SequentialProcess.updateStatistics adds the
\* elapsed time and 1 to the child the most recent trigger selected, which is
\* children[(index - 1) mod k], and to no other node; the composite's own
\* waitTime and count are 0 in every state.
C2_SequentialAttribution ==
    /\ []((distribution = "exponential_fr" /\ Constructed) =>
            (proc[1].count = 0 /\ proc[1].waitTime = 0))
    /\ [][(distribution = "exponential_fr" /\ Fired) =>
            LET p == proc[1]
                k == Len(p.children)
                c == p.children[((p.currentIndex + k - 1) % k) + 1]
            IN /\ c = p.currentProcess
               /\ proc'[c].count = proc[c].count + 1
               /\ proc'[c].waitTime = proc[c].waitTime + (now' - prevTime)
               /\ \A m \in DOMAIN proc : m # c => SameCounters(m)]_vars

\* the first stage was credited a positive wait while the index pointed at
\* the second stage
C2_Witness ==
    /\ distribution = "exponential_fr"
    /\ cycles = 1
    /\ proc[2].count = 1
    /\ proc[2].waitTime > 0
    /\ proc[3].count = 0
    /\ proc[1].currentIndex = 0

\* ---------------------------------------------------------------- C3
\* C3: each statistics update after a race round goes to the child that won
\* the round only: its waitTime and count advance and no other node's
\* counters (the composite's own included) change.
C3_WinnerOnly ==
    [][(distribution = "n_exponential" /\ Fired) =>
            LET w == cond.first
            IN /\ proc'[w].count = proc[w].count + 1
               /\ proc'[w].waitTime = proc[w].waitTime + (now' - prevTime)
               /\ \A m \in DOMAIN proc : m # w => SameCounters(m)]_vars

\* ---------------------------------------------------------------- C4
MinOf(S) == CHOOSE x \in S : \A y \in S : x <= y

RoundDelays == {cond.events[k].delay : k \in 1..Len(cond.events)}

\* the earliest of the round's events, the first one among equals
EarliestChild ==
    LET k == MinOf({j \in 1..Len(cond.events) :
                        cond.events[j].delay = MinOf(RoundDelays)})
    IN cond.events[k].node

\* C4: a race round started at time t (prevTime) whose children sampled
\* d_0..d_{n-1} fires the root at t + min(d_j), and the event that resolved
\* it is the earliest child's, in every round.
C4_RaceResolvesAtMin ==
    [][(distribution = "n_exponential" /\ Fired) =>
            /\ now' = prevTime + MinOf(RoundDelays)
            /\ cond.triggered
            /\ cond.first = EarliestChild]_vars

\* the second round, started at time 1, has been resolved at time 2 by the
\* timeout of child index 1
C4_Witness ==
    /\ distribution = "n_exponential"
    /\ pc = "running"
    /\ cycles = 1
    /\ prevTime = 1
    /\ cond.triggered
    /\ cond.first = proc[1].children[2]
    /\ now = prevTime + MinOf(RoundDelays)

\* ---------------------------------------------------------------- C5
PendingOf(n) ==
    {e \in queue : \/ e.kind = "timeout" /\ e.node = n
                   \/ n = 1 /\ e.kind \in {"init", "cond"}}

\* C5: every process node has at most one pending scheduled event in the
\* scheduler's queue.
C5_OnePendingTrigger ==
    \A n \in DOMAIN proc : Cardinality(PendingOf(n)) <= 1

\* ---------------------------------------------------------------- C6
\* the first branch whose cumulative probability exceeds u, 0 when none does
FirstExceeding(p, u) ==
    LET above == {k \in 1..Len(p.cdf) : p.cdf[k] > u}
    IN IF above = {} THEN 0 ELSE p.children[MinOf(above)]

\* C6: after a trigger of the BranchingProcess with uniform sample u the
\* selected branch is the first one (in branch order) whose cumulative
\* probability is strictly greater than u; with probabilities [0.3, 0.7],
\* u = 0.2 selects branch 0 and u = 0.3 or 0.5 selects branch 1.
C6_BranchSelection ==
    (distribution = "branching" /\ Constructed /\ proc[1].n >= 0) =>
        LET p == proc[1] IN
        /\ p.currentProcess = FirstExceeding(p, p.n)
        /\ probabilities = <<3, 7>> =>
              /\ p.n = 2 => p.currentProcess = p.children[1]
              /\ p.n \in {3, 5} => p.currentProcess = p.children[2]

\* a sample exactly at branch 0's upper bound selected branch 1
C6_Witness ==
    /\ distribution = "branching"
    /\ probabilities = <<3, 7>>
    /\ Constructed
    /\ proc[1].n = 3
    /\ proc[1].currentProcess = proc[1].children[2]

\* ---------------------------------------------------------------- C7
NonDecreasing(s) == \A k \in 1..(Len(s) - 1) : s[k] <= s[k + 1]

\* C7: every BranchingProcess that has been constructed has a non-decreasing
\* cumulative table whose final value is 1 (a probability list that does not
\* sum to 1 is rejected by the constructor).
C7_CdfEndsAtOne ==
    \A m \in DOMAIN proc :
        proc[m].cls = "branch" =>
            /\ NonDecreasing(proc[m].cdf)
            /\ proc[m].cdf[Len(proc[m].cdf)] = Scale

\* ---------------------------------------------------------------- C8
\* C8: collect never raises: when the run has stopped at the horizon, the
\* two-stage composite reports stage0.waitTime / (stage0 + stage1 waitTime)
\* when the total is positive, a leaf reports waitTime / count when count is
\* positive, and either reports 0 when nothing fired before the horizon.
C8_CollectNeverRaises ==
    /\ error # "ZeroDivisionError"
    /\ (pc = "stopped" /\ distribution = "exponential_fr") =>
          LET up == proc[2].waitTime
              down == proc[3].waitTime
          IN CollectValue = (IF up + down > 0 THEN Ratio(up, up + down)
                             ELSE <<0, 1>>)
    /\ (pc = "stopped" /\ distribution = "exponential") =>
          CollectValue = (IF proc[1].count > 0
                          THEN Ratio(proc[1].waitTime, proc[1].count)
                          ELSE <<0, 1>>)

\* ---------------------------------------------------------------- C9
\* C9: a call of simulate with N replications of a leaf or two-stage process
\* appends exactly N samples: while it runs, one sample per replication
\* whose run has been collected, and N when the call has ended.
C9_OneSamplePerReplication ==
    distribution \in {"exponential", "exponential_fr"} =>
        /\ pc \in {"loop", "constructed", "ready", "running", "stopped"} =>
              Len(tempList) = i
        /\ pc \in {"done", "error"} => Len(tempList) = maxRuns

\* ---------------------------------------------------------------- C10
\* C10: every replication starts from a fresh state: right after the tree is
\* constructed the clock is 0, the event queue is empty, nothing is awaited,
\* and every node has count 0, waitTime 0 and index 0.
C10_FreshReplication ==
    pc = "constructed" =>
        /\ now = 0
        /\ queue = {}
        /\ target = NoTarget
        /\ cycles = 0
        /\ \A m \in DOMAIN proc :
              /\ proc[m].count = 0
              /\ proc[m].waitTime = 0
              /\ proc[m].currentIndex = 0

\* the second replication's tree has been constructed after a first one in
\* which both stages fired
C10_Witness ==
    /\ pc = "constructed"
    /\ distribution = "exponential_fr"
    /\ i = 1
    /\ Len(tempList) = 1
    /\ tempList[1] \notin {<<0, 1>>, <<1, 1>>}

\* ---------------------------------------------------------------- C11
\* C11: no step of simulate or of the sweep seeds the generator again or
\* moves it back: the seed stays what it was, the position never decreases,
\* and it moves only while a replication is running, so the next replication
\* (of the same rate or of the next rate of the sweep) starts drawing at the
\* position the previous one stopped at.
C11_StreamOnlyAdvances ==
    [][/\ stream'.seed = stream.seed
       /\ stream'.pos >= stream.pos
       /\ pc # "running" => stream' = stream
       /\ (pc = "running" /\ target' # target /\ error' = "none") =>
              stream'.pos > stream.pos]_vars

\* the second replication of the second rate has drawn its first sample on
\* top of the six or more that the three replications before it drew
C11_Witness ==
    /\ sweep.rate = StartRate + IncrementRate
    /\ i = 1
    /\ pc = "running"
    /\ target.kind # "none"
    /\ cycles = 0
    /\ stream.pos >= 7

\* ---------------------------------------------------------------- C12
\* C12: simulate called with a kind that is not in the registry ends with a
\* NameError at the lookup, before the loop: no environment and no process
\* tree has been made, nothing has been scheduled or drawn, no replication
\* has been counted and no sample has been appended to the collector.
C12_UnknownKindFailsFast ==
    distribution \notin failureTypes =>
        /\ pc \in {"start", "error"}
        /\ pc = "error" => error = "NameError"
        /\ proc = <<>>
        /\ queue = {} /\ eid = 0 /\ now = 0
        /\ i = 0
        /\ tempList = <<>>
        /\ stream.pos = 0

\* the call with the unknown kind has ended with the NameError
C12_Witness ==
    /\ distribution = "unknown"
    /\ pc = "error"
    /\ error = "NameError"

\* ---------------------------------------------------------------- C13
\* the row of key holds one value per name of the table, in the table's
\* order, each the name's function of data
Reduced(st, key, data) ==
    /\ Has(st, key)
    /\ Len(Get(st, key)) = Len(StatTable)
    /\ \A k \in 1..Len(StatTable) :
          /\ Get(st, key)[k].key = StatTable[k]
          /\ Get(st, key)[k].val = StatFunc(StatTable[k], data)

\* the buffer holds the samples collected since the latest startRow, in
\* collection order: startRow empties it, collect appends, nothing else
\* touches it
BufferIsSinceStartRow ==
    /\ call'.op = "startRow" => tempList' = <<>>
    /\ (call'.op = "collect" /\ error' = "none") =>
          tempList' = Append(tempList, call'.arg)
    /\ call'.op \in {"doneRow", "extract"} => tempList' = tempList

\* C13 as stated: after startRow(key), any number of collect(x) calls (none
\* included) and doneRow(key), stats[key] holds exactly one value per name
\* of the stat table, each computed over exactly the samples collected since
\* that startRow, in collection order.
C13_AnyNumberOfSamples ==
    [][/\ BufferIsSinceStartRow
       /\ (call'.op = "doneRow" /\ Has(stats, call'.arg)) =>
              /\ error' = "none"
              /\ Reduced(stats', call'.arg, tempList)]_vars

\* C13, amended: after startRow(key), one or more collect(x) calls and
\* doneRow(key), stats[key] holds exactly one value per name of the stat
\* table, each computed over exactly the samples collected since that
\* startRow, in collection order (1, 2, 3 give the average 2); samples of
\* earlier rows never contribute.  With no sample collected doneRow raises
\* StatisticsError and stores nothing.
C13_RowReduced ==
    [][/\ BufferIsSinceStartRow
       /\ (call'.op = "doneRow" /\ Has(stats, call'.arg) /\ tempList # <<>>) =>
              /\ error' = "none"
              /\ Reduced(stats', call'.arg, tempList)
              /\ tempList = <<<<1, 1>>, <<2, 1>>, <<3, 1>>>> =>
                    Get(Get(stats', call'.arg), "average") = <<2, 1>>
       /\ (call'.op = "doneRow" /\ tempList = <<>>) =>
              /\ error' = "StatisticsError"
              /\ stats' = stats]_vars

\* row 2 has been closed over its own samples 1, 2, 3 after row 1 was
\* closed over another sample
C13_Witness ==
    /\ pc = "idle"
    /\ call = Call("doneRow", 2, None)
    /\ error = "none"
    /\ tempList = <<<<1, 1>>, <<2, 1>>, <<3, 1>>>>
    /\ Has(stats, 1) /\ Has(stats, 2)
    /\ Get(stats, 2) = <<[key |-> "median", val |-> <<2, 1>>],
                          [key |-> "average", val |-> <<2, 1>>]>>
    /\ Get(stats, 1) = <<[key |-> "median", val |-> <<3, 1>>],
                          [key |-> "average", val |-> <<3, 1>>]>>

\* ---------------------------------------------------------------- C14
\* C14: doneRow(key) clears the raw sample buffer: when it has returned the
\* buffer is empty (so a collect and a second doneRow reduce only the
\* samples collected after the first doneRow).
C14_DoneRowClearsBuffer ==
    (pc = "idle" /\ call.op = "doneRow" /\ error = "none") => tempList = <<>>

\* ---------------------------------------------------------------- C15
KeysOf(st) == [k \in 1..Len(st) |-> st[k].key]

IsPrefix(a, b) == Len(a) <= Len(b) /\ \A k \in 1..Len(a) : a[k] = b[k]

InTable(statName) == \E k \in 1..Len(StatTable) : StatTable[k] = statName

\* a row is closed when doneRow has filled it since it was last opened
Closed(r) == Len(r.val) = Len(StatTable)

ClosedRows(st) == SelectSeq(st, Closed)

\* C15: the rows stay in the order in which their keys were first opened
\* (a key opened again keeps its place, a new key goes to the end), and
\* extract(statName) for a name of the table returns exactly one value per
\* closed row, the row's value of that statistic, in that order, whatever
\* calls came before.
C15_ExtractInOpeningOrder ==
    [][/\ IsPrefix(KeysOf(stats), KeysOf(stats'))
       /\ call'.op = "startRow" =>
              /\ Has(stats', call'.arg) /\ Get(stats', call'.arg) = <<>>
              /\ ~Has(stats, call'.arg) =>
                    KeysOf(stats') = Append(KeysOf(stats), call'.arg)
       /\ (call'.op = "extract" /\ InTable(call'.arg)) =>
              LET rows == ClosedRows(stats) IN
              /\ Len(call'.ret) = Len(rows)
              /\ \A k \in 1..Len(rows) :
                    call'.ret[k] = Get(rows[k].val, call'.arg)]_vars

\* key 2 was opened first and closed last: extract lists its value first
C15_Witness ==
    /\ pc = "idle"
    /\ call.op = "extract"
    /\ call.arg = "average"
    /\ KeysOf(stats) = <<2, 1>>
    /\ Get(stats, 1) = <<[key |-> "median", val |-> <<1, 1>>],
                          [key |-> "average", val |-> <<1, 1>>]>>
    /\ call.ret = << <<2, 1>>, <<1, 1>> >>

\* ---------------------------------------------------------------- C16
\* the rows that hold a value under stat_name
Holding(st, stat_name) == {k \in 1..Len(st) : Has(st[k].val, stat_name)}

\* C16: extract never raises and leaves the rows and the buffer as they
\* were; it returns as many values as there are rows holding the name, so
\* the empty sequence for a name no row holds, and nothing for a row that
\* is open and not yet closed.
C16_ExtractAbsentName ==
    [][call'.op = "extract" =>
          /\ error' = "none"
          /\ stats' = stats
          /\ tempList' = tempList
          /\ Len(call'.ret) = Cardinality(Holding(stats, call'.arg))
          /\ Holding(stats, call'.arg) = {} => call'.ret = <<>>
          /\ \A k \in 1..Len(stats) :
                stats[k].val = <<>> => k \notin Holding(stats, call'.arg)]_vars

\* extract of a name outside the table has returned the empty sequence
\* while one row was closed and another open
C16_Witness ==
    /\ pc = "idle"
    /\ call = Call("extract", "stddev", <<>>)
    /\ error = "none"
    /\ Len(stats) = 2
    /\ Len(ClosedRows(stats)) = 1
    /\ \E k \in 1..Len(stats) : stats[k].val = <<>>

\* ---------------------------------------------------------------- C17
\* the sweep has ended with an exception
SweepFailed == sweep.pc = "error"

\* C17: when a step of the sweep fails the sweep stops there: nothing runs
\* after the failure, the rows closed before it hold exactly the statistics
\* they were closed with (no later step of the sweep changes a closed row),
\* and the row of the failed rate, if it was opened, holds no statistics.
C17_FailedStepKeepsClosedRows ==
    [][/\ ~SweepFailed
       /\ \A k \in 1..Len(stats) :
              Closed(stats[k]) => (k <= Len(stats') /\ stats'[k] = stats[k])
       /\ SweepFailed' =>
              /\ stats' = stats
              /\ Has(stats', sweep'.rate) => Get(stats', sweep'.rate) = <<>>
              /\ \A k \in 1..Len(stats') :
                    stats'[k].key < sweep'.rate => Closed(stats'[k])]_vars

\* the simulation of the second rate has raised after the row of the first
\* rate was closed
C17_Witness ==
    /\ SweepFailed
    /\ sweep.driver = "recovery"
    /\ sweep.rate = StartRate + IncrementRate
    /\ error = "NameError"
    /\ KeysOf(stats) = <<StartRate, StartRate + IncrementRate>>
    /\ Closed(stats[1])
    /\ stats[2].val = <<>>

\* ---------------------------------------------------------------- C18
\* a branch's own derived statistic: waitTime / count for a leaf, the share
\* of the first stage's time for a two-stage sequence; 0 when nothing fired
DerivedOf(n) ==
    LET p == proc[n] IN
    IF p.cls = "seq"
    THEN LET up == proc[p.children[1]].waitTime
             total == SumSeq([k \in 1..Len(p.children) |->
                                 proc[p.children[k]].waitTime])
         IN IF total = 0 THEN <<0, 1>> ELSE Ratio(up, total)
    ELSE IF p.count = 0 THEN <<0, 1>> ELSE Ratio(p.waitTime, p.count)

\* the sum over the branches of probability times derived statistic
WeightedSum(n) ==
    LET p == proc[n] IN
    FracSum([k \in 1..Len(p.children) |->
                Ratio(probabilities[k] * DerivedOf(p.children[k])[1],
                      Scale * DerivedOf(p.children[k])[2])])

\* C18: the value a BranchingProcess hands to the collector when the run
\* has stopped is the probability-weighted sum of its branches' own derived
\* statistics.
C18_BranchingWeightedSum ==
    (pc = "stopped" /\ distribution = "branching") =>
        CollectValue = WeightedSum(1)

\* ---------------------------------------------------------------- C19
\* e is scheduled no later than o, and was scheduled first if for the same time
NotAfter(e, o) == e.time < o.time \/ (e.time = o.time /\ e.eid <= o.eid)

\* C19: within a replication the clock never decreases (only the
\* construction of the next replication's environment sets it back to 0),
\* and every step of the running scheduler processes the pending event with
\* the least scheduled time, among those of the same time the one scheduled
\* first, and sets the clock to that time.
C19_TimeThenSchedulingOrder ==
    [][/\ pc # "loop" => now' >= now
       /\ pc = "running" =>
              \E e \in queue :
                  /\ e \notin queue'
                  /\ now' = e.time
                  /\ \A o \in queue : NotAfter(e, o)]_vars

\* the timeout of child 0 has been processed while the timeout child 1
\* scheduled after it for the same time, and the condition event scheduled
\* last, are still pending
C19_Witness ==
    /\ pc = "running"
    /\ cond.triggered
    /\ cond.first = proc[1].children[1]
    /\ \E e \in queue : /\ e.kind = "timeout"
                         /\ e.time = now
                         /\ e.node = proc[1].children[2]
    /\ \E c \in queue : c.kind = "cond" /\ c.time = now

\* ---------------------------------------------------------------- C20
\* every delay that can be sampled is positive
PositiveDelays == \A d \in DelaysOf(distribution) : d > 0

Loser(e) == e.kind = "timeout" /\ (~InCond(e) \/ cond.triggered)

\* C21: when the scheduler reaches the timeout of a child that lost its
\* round, the step only advances the clock and drops the event: the root is
\* not resumed (no cycle completes, its awaited event and prevTime stay),
\* the pending round's condition is not resolved or changed, and no node's
\* waitTime or count changes.
C21_LoserHasNoEffect ==
    [][(distribution = "n_exponential" /\ pc = "running"
          /\ Loser(HeadOf(queue))) =>
            /\ queue' = queue \ {HeadOf(queue)}
            /\ now' = HeadOf(queue).time
            /\ pc' = pc
            /\ cycles' = cycles
            /\ target' = target
            /\ prevTime' = prevTime
            /\ cond' = cond
            /\ proc' = proc
            /\ eid' = eid]_vars

\* in the second round, started at time 1 and still unresolved, the clock
\* has reached the time of the timeout that lost the first round
C21_Witness ==
    /\ distribution = "n_exponential"
    /\ pc = "running"
    /\ cycles = 1
    /\ prevTime = 1
    /\ now = prevTime + 1
    /\ ~cond.triggered
    /\ target.kind = "cond"
    /\ \A e \in queue : e.kind = "timeout" => InCond(e)

\* ---------------------------------------------------------------- C22
RECURSIVE ChainLeaf(_)
\* the node reached from n by following the child each composite selected
\* in its latest trigger
ChainLeaf(n) ==
    IF proc[n].cls \in {"seq", "branch"}
    THEN ChainLeaf(proc[n].currentProcess)
    ELSE n

\* C22: in a tree of Sequential and Branching composites each root firing
\* adds the elapsed time and 1 to exactly one node: the leaf whose timeout
\* fired, which is the leaf reached from the root through the child each
\* composite selected in the trigger of that round (for a BranchingProcess
\* the branch its sample selected); every other node's counters stay.
C22_OneLeafPerFiring ==
    [][(distribution \in {"exponential_fr", "branching"} /\ Fired) =>
            LET leaf == ChainLeaf(1)
                e == HeadOf(queue)
            IN /\ proc[leaf].cls = "leaf"
               /\ e.eid = target.eid
               /\ e.node = leaf
               /\ proc[1].cls = "branch" =>
                     /\ proc[1].currentProcess = FirstExceeding(proc[1], proc[1].n)
                     /\ \/ leaf = proc[1].currentProcess
                        \/ leaf = proc[proc[1].currentProcess].currentProcess
               /\ proc'[leaf].count = proc[leaf].count + 1
               /\ proc'[leaf].waitTime = proc[leaf].waitTime + (now' - prevTime)
               /\ \A m \in DOMAIN proc : m # leaf => SameCounters(m)]_vars

\* two firings of the branching tree: one credited to the first stage of
\* the nested sequence, one to the single-stage branch, none to a composite
C22_Witness ==
    /\ distribution = "branching"
    /\ cycles = 2
    /\ proc[4].count = 1
    /\ proc[4].waitTime > 0
    /\ proc[3].count = 1
    /\ proc[5].count = 0
    /\ proc[1].count = 0
    /\ proc[2].count = 0

\* ---------------------------------------------------------------- C23
\* the total of the waitTime fields of all nodes of the tree
SumWaitTime == SumSeq([k \in 1..Len(proc) |-> proc[k].waitTime])

\* the total of the count fields of all nodes of the tree
SumAllCount == SumCount([k \in 1..Len(proc) |-> k])

\* C23: within a replication the waitTime of all nodes adds up to the clock
\* time of the latest root firing (0 before the first) and the counts add up
\* to the number of root firings; the firings are strictly before the
\* horizon, and the interval from the last firing to the horizon is
\* attributed to no node, so the total waitTime never exceeds the horizon.
C23_TimeConservation ==
    Constructed =>
        /\ SumWaitTime = prevTime
        /\ SumAllCount = cycles
        /\ cycles = 0 => prevTime = 0
        /\ prevTime <= now
        /\ cycles > 0 => prevTime < maxTime
        /\ SumWaitTime <= maxTime
        /\ pc = "stopped" => (now = maxTime /\ SumWaitTime = prevTime)

\* a race stopped at horizon 3 after firings at 1 and 2: the totals are 2 and
\* 2, the last unit of time is unattributed, and a timeout sampled for a time
\* after the horizon is still pending
C23_Witness ==
    /\ distribution = "n_exponential"
    /\ pc = "stopped"
    /\ maxTime = 3
    /\ now = maxTime
    /\ cycles = 2
    /\ prevTime = 2
    /\ SumWaitTime = 2
    /\ \E e \in queue : e.kind = "timeout" /\ e.time > maxTime

\* ---------------------------------------------------------------- C24
\* the members of a node's branch list
BranchesOf(p) == {p.children[k] : k \in 1..Len(p.children)}

\* C24: after every trigger of a constructed BranchingProcess (n is its
\* latest sample) the selected process is a member of its branch list and
\* the trigger was delegated to it: no sample leaves the selection empty, so
\* the trigger never fails for want of a branch.
C24_TriggerSelectsBranch ==
    /\ error # "AttributeError"
    /\ \A m \in DOMAIN proc :
          (proc[m].cls = "branch" /\ proc[m].n >= 0) =>
              proc[m].currentProcess \in BranchesOf(proc[m])

====
